---- MODULE Spec2Model ----
(***************************************************************************)
(* Pathshala Coach backend (src/backend/server.py): the request handlers   *)
(* of the adaptive question selection and skill-scoring engine, over the   *)
(* four MongoDB collections users, questions, assessments, study_plans.    *)
(*                                                                         *)
(* Conventions of the model                                                *)
(*  - a collection is the sequence of its documents in insertion order;    *)
(*    find_one returns the first match.                                    *)
(*  - a uuid4 is the document's ordinal in its collection (fresh, never    *)
(*    reused: nothing is ever deleted); 0 is an id no document has.        *)
(*  - Optional[x] is a sequence of length <= 1: <<>> is None.              *)
(*  - a Python dict is the sequence of its <<key, value>> pairs in         *)
(*    insertion order (the order .items() iterates in).                    *)
(*  - a percentage (correct / total) * 100 is the exact fraction           *)
(*    <<num, den>> in lowest terms; the comparisons with 50 and 80 agree   *)
(*    with the float comparisons of the code for every total below 200.    *)
(*  - the texts of a question are abstracted to a tag naming the catalog   *)
(*    entry ("S3" is SAMPLE_QUESTIONS[2], "M1" MOCK_ADAPTIVE_QUESTIONS[0]),*)
(*    an option list to its length.                                        *)
(***************************************************************************)
EXTENDS Integers, Sequences, FiniteSets, TLC

VARIABLES
    users,        \* db.users
    questions,    \* db.questions
    assessments,  \* db.assessments
    study_plans,  \* db.study_plans
    today,        \* the server's calendar date / clock (datetime.now())
    reqs,         \* in-flight requests of the interleaved handlers, by slot
    prac,         \* the get_adaptive_practice call in progress, or <<>>
    resp          \* the outcome of the last handler that returned

vars == <<users, questions, assessments, study_plans, today, reqs, prac, resp>>

----------------------------------------------------------------------------
(* Bounds of the model *)

MaxAssessments == 1   \* assessments created in one behaviour
MaxAnswers == 3       \* answers submitted to one assessment, where scores are checked
MaxTierAnswers == 5   \* the same, on one question, where the tier thresholds are checked
MaxFewAnswers == 2    \* the same, where answers only serve to set the tiers
MaxDay == 2           \* calendar dates the clock passes through
MaxShuffle == 2       \* outcomes of random.shuffle that are explored
MaxCount == 2         \* largest count given to get_adaptive_practice
MaxPick == 2          \* outcomes of one random.choice that are explored
MaxInflight == 2      \* requests whose awaits interleave
MaxUsers == 2         \* user documents, when interleaving can duplicate them
MaxPlans == 2         \* plan documents, when interleaving can duplicate them
MaxRecords == 2       \* assessment documents, where a diagnostic test and a
                      \* practice batch meet

----------------------------------------------------------------------------
(* Generic helpers *)

Range(s) == {s[i] : i \in 1..Len(s)}

Min(a, b) == IF a <= b THEN a ELSE b

RECURSIVE GCD(_, _)
GCD(a, b) == IF b = 0 THEN a ELSE GCD(b, a % b)

RECURSIVE SortedSeq(_)
\* the elements of a finite set of integers, ascending
SortedSeq(S) ==
    IF S = {} THEN <<>>
    ELSE LET m == CHOOSE x \in S : \A y \in S : x <= y
         IN  <<m>> \o SortedSeq(S \ {m})

\* dict helpers: a dict is a sequence of <<key, value>> pairs, keys unique
DictKeys(d) == {d[i][1] : i \in 1..Len(d)}
DictHas(d, k) == \E i \in 1..Len(d) : d[i][1] = k
DictGet(d, k) == d[CHOOSE i \in 1..Len(d) : d[i][1] = k][2]
\* d[k] = v : overwrite in place, or append a new key
DictSet(d, k, v) ==
    IF DictHas(d, k)
    THEN [i \in 1..Len(d) |-> IF d[i][1] = k THEN <<k, v>> ELSE d[i]]
    ELSE Append(d, <<k, v>>)

----------------------------------------------------------------------------
(* Static data *)

Q(s, d, t, c, e) ==
    [subject |-> s, difficulty |-> d, text |-> t, options_en |-> 4,
     options_hi |-> 4, correct_answer |-> c, exam_type |-> e]

SAMPLE_QUESTIONS == <<
    Q("quantitative", "beginner", "S1", 1, "SSC"),
    Q("quantitative", "beginner", "S2", 1, "SSC"),
    Q("quantitative", "intermediate", "S3", 1, "SSC"),
    Q("reasoning", "beginner", "S4", 0, "SSC"),
    Q("reasoning", "beginner", "S5", 2, "Banking"),
    Q("reasoning", "intermediate", "S6", 0, "SSC"),
    Q("english", "beginner", "S7", 1, "Banking"),
    Q("english", "beginner", "S8", 1, "SSC"),
    Q("english", "intermediate", "S9", 0, "Banking"),
    Q("general_knowledge", "beginner", "S10", 1, "State PSC"),
    Q("general_knowledge", "beginner", "S11", 1, "SSC"),
    Q("general_knowledge", "intermediate", "S12", 1, "State PSC") >>

\* the second assignment (line 369) is the one in force
MOCK_ADAPTIVE_QUESTIONS == <<
    Q("quantitative", "intermediate", "M1", 1, "SSC"),
    Q("reasoning", "intermediate", "M2", 1, "SSC"),
    Q("english", "intermediate", "M3", 1, "SSC"),
    Q("general_knowledge", "intermediate", "M4", 2, "SSC"),
    Q("quantitative", "advanced", "M5", 2, "SSC"),
    Q("quantitative", "intermediate", "M6", 1, "Banking"),
    Q("reasoning", "intermediate", "M7", 1, "Banking"),
    Q("english", "intermediate", "M8", 0, "Banking"),
    Q("general_knowledge", "intermediate", "M9", 1, "Banking"),
    Q("quantitative", "advanced", "M10", 0, "Banking"),
    Q("quantitative", "intermediate", "M11", 1, "State PSC"),
    Q("reasoning", "intermediate", "M12", 0, "State PSC"),
    Q("english", "intermediate", "M13", 2, "State PSC"),
    Q("general_knowledge", "intermediate", "M14", 0, "State PSC"),
    Q("quantitative", "advanced", "M15", 0, "State PSC"),
    Q("quantitative", "intermediate", "M16", 0, "Railway"),
    Q("reasoning", "intermediate", "M17", 0, "Railway"),
    Q("english", "intermediate", "M18", 1, "Railway"),
    Q("general_knowledge", "intermediate", "M19", 0, "Railway"),
    Q("quantitative", "advanced", "M20", 0, "Railway") >>

\* the second assignment (line 350) is the one in force; only "subjects" is read
MOCK_STUDY_PLANS == <<
    <<"quantitative", "reasoning">>,
    <<"english", "general_knowledge">>,
    <<"quantitative", "english", "reasoning">> >>

\* subjects = [...] of start_diagnostic_test, and the default pool of
\* get_adaptive_practice
CoreSubjects == <<"quantitative", "reasoning", "english", "general_knowledge">>

----------------------------------------------------------------------------
(* Randomness: the outcomes of the random module that the model explores *)

\* random.choice(s): one of the elements of the non-empty sequence s
RandomChoice(s) == {s[i] : i \in 1..Min(Len(s), MaxPick)}

\* random.shuffle(s): a permutation of s (the rotations by less than MaxShuffle)
Rotate(s, k) == [i \in 1..Len(s) |-> s[((i - 1 + k) % Len(s)) + 1]]
RandomShuffle(s) ==
    IF Len(s) = 0 THEN {s} ELSE {Rotate(s, k) : k \in 0..(MaxShuffle - 1)}

\* random.sample(S, k): k distinct elements of S; the order is left to the
\* shuffle that follows its only use
RandomSample(S, k) == {T \in SUBSET S : Cardinality(T) = k}

----------------------------------------------------------------------------
(* Percentages and tiers *)

\* (correct / total) * 100 if total > 0 else 0
Percent(correct, total) ==
    IF total > 0
    THEN LET g == GCD(100 * correct, total)
         IN  <<(100 * correct) \div g, total \div g>>
    ELSE <<0, 1>>

\* score >= n
AtLeast(score, n) == score[1] >= n * score[2]

\* mutant: `score > 80` for `score >= 80`
TierOfStrict(score) ==
    IF score[1] > 80 * score[2] THEN "advanced"
    ELSE IF AtLeast(score, 50) THEN "intermediate"
    ELSE "beginner"

\* the if/elif/else of complete_assessment
TierOf(score) ==
    IF AtLeast(score, 80) THEN "advanced"
    ELSE IF AtLeast(score, 50) THEN "intermediate"
    ELSE "beginner"

----------------------------------------------------------------------------
(* Persistence: the queries the handlers make *)

\* find_one: the first matching document, or None
FindOne(coll, P(_)) ==
    LET m == SelectSeq(coll, P) IN IF m = <<>> THEN <<>> ELSE <<m[1]>>

FindById(coll, id) == LET P(x) == x.id = id IN FindOne(coll, P)

\* mutant: the query names the wrong field
FindUserByName(us, phone) == LET P(x) == x.name = phone IN FindOne(us, P)

\* db.users.find_one({"phone": phone})
FindUserByPhone(us, phone) == LET P(x) == x.phone = phone IN FindOne(us, P)

\* mutant: the query leaves out the date
FindPlanOfUser(plans, uid, date) ==
    LET P(x) == x.user_id = uid IN FindOne(plans, P)

\* db.study_plans.find_one({"user_id": uid, "date": date})
FindPlan(plans, uid, date) ==
    LET P(x) == x.user_id = uid /\ x.date = date IN FindOne(plans, P)

\* update_one({"id": id}, {"$set": ...}): the first document with that id
UpdateOne(coll, id, F(_)) ==
    IF \E i \in 1..Len(coll) : coll[i].id = id
    THEN LET k == CHOOSE i \in 1..Len(coll) :
                      coll[i].id = id /\ \A j \in 1..(i - 1) : coll[j].id # id
         IN  [coll EXCEPT ![k] = F(coll[k])]
    ELSE coll

\* str(uuid.uuid4())
NewId(coll) == Len(coll) + 1

Response(op, req, status, body) ==
    [op |-> op, req |-> req, status |-> status, body |-> body]

----------------------------------------------------------------------------
(* Inputs *)

\* UserCreate bodies: two contact ids, and a second body for the first one
\* that differs in name, target exam and language
UserInputs == {
    [name |-> "Asha", phone |-> "9999900000", target_exam |-> "SSC",
     preferred_language |-> "english"],
    [name |-> "Bina", phone |-> "9999900000", target_exam |-> "Banking",
     preferred_language |-> "hindi"],
    [name |-> "Chand", phone |-> "8888800000", target_exam |-> "Banking",
     preferred_language |-> "english"] }

\* ids a caller can give: every stored id of the collection, and one unknown
IdInputs(coll) == {coll[i].id : i \in 1..Len(coll)} \cup {0}

Init ==
    /\ users = <<>>
    /\ questions = <<>>
    /\ assessments = <<>>
    /\ study_plans = <<>>
    /\ today = 1
    /\ reqs = [s \in 1..MaxInflight |-> <<>>]
    /\ prac = <<>>
    /\ resp = Response("none", <<>>, 0, <<>>)

----------------------------------------------------------------------------
(* POST /users *)

\* User(**user_data.dict())
NewUser(us, u) ==
    [id |-> NewId(us), name |-> u.name, phone |-> u.phone,
     target_exam |-> u.target_exam,
     preferred_language |-> u.preferred_language, skill_levels |-> <<>>]

create_user(u) ==
    LET existing_user == FindUserByPhone(users, u.phone) IN
    /\ IF existing_user # <<>>
       THEN /\ resp' = Response("create_user", u, 200, existing_user[1])
            /\ UNCHANGED users
       ELSE /\ users' = Append(users, NewUser(users, u))
            /\ resp' = Response("create_user", u, 200, NewUser(users, u))
    /\ UNCHANGED <<questions, assessments, study_plans, today, reqs, prac>>

----------------------------------------------------------------------------
(* POST /diagnostic-test *)

PerSubject == 3      \* min(3, len(available_questions))
DiagnosticSize == 10 \* while len(questions) < 10

\* indices of SAMPLE_QUESTIONS stand for id(q): each entry is its own object
SubjectQuestions(subject) ==
    {i \in 1..Len(SAMPLE_QUESTIONS) : SAMPLE_QUESTIONS[i].subject = subject}

RECURSIVE SubjectPass(_, _)
\* for subject in subjects: sample up to PerSubject unused questions of the
\* subject; qs is `questions` so far, and used_questions is always Range(qs)
SubjectPass(k, qs) ==
    IF k > Len(CoreSubjects) THEN {qs}
    ELSE LET available_questions == SubjectQuestions(CoreSubjects[k]) \ Range(qs)
             n == Min(PerSubject, Cardinality(available_questions))
         IN  UNION {SubjectPass(k + 1, qs \o SortedSeq(selected)) :
                        selected \in RandomSample(available_questions, n)}

RECURSIVE TopUp(_)
\* while len(questions) < 10: add one remaining unused question, or break
TopUp(qs) ==
    IF Len(qs) < DiagnosticSize
    THEN LET remaining_questions ==
                 SortedSeq((1..Len(SAMPLE_QUESTIONS)) \ Range(qs))
         IN  IF remaining_questions # <<>>
             THEN UNION {TopUp(Append(qs, selected)) :
                             selected \in RandomChoice(remaining_questions)}
             ELSE {qs}
    ELSE {qs}

\* the catalog indices of `questions` after random.shuffle, every outcome
DiagnosticSelections ==
    UNION {RandomShuffle(final) : final \in
               UNION {TopUp(qs) : qs \in SubjectPass(1, <<>>)}}

\* Question(id=assessment.questions[i], **question_data).dict()
StoredQuestion(id, q) ==
    [id |-> id, subject |-> q.subject, difficulty |-> q.difficulty,
     text |-> q.text, options_en |-> q.options_en, options_hi |-> q.options_hi,
     correct_answer |-> q.correct_answer, exam_type |-> q.exam_type]

\* the dict returned per question: no correct_answer, no explanation
PublicQuestion(q) ==
    [id |-> q.id, subject |-> q.subject, difficulty |-> q.difficulty,
     text |-> q.text, options_en |-> q.options_en, options_hi |-> q.options_hi,
     exam_type |-> q.exam_type]

NewAssessment(id, user_id, test_type, qids) ==
    [id |-> id, user_id |-> user_id, test_type |-> test_type,
     questions |-> qids, answers |-> <<>>, score |-> <<0, 1>>,
     subject_scores |-> <<>>, completed_at |-> <<>>]

start_diagnostic_test(user_id) ==
    /\ Len(assessments) < MaxAssessments
    /\ \E sel \in DiagnosticSelections :
        LET base == Len(questions)
            qids == [i \in 1..Len(sel) |-> base + i]
            question_objects ==
                [i \in 1..Len(sel) |-> StoredQuestion(qids[i], SAMPLE_QUESTIONS[sel[i]])]
            assessment ==
                NewAssessment(NewId(assessments), user_id, "diagnostic", qids)
        IN  /\ questions' = questions \o question_objects
            /\ assessments' = Append(assessments, assessment)
            /\ resp' = Response("start_diagnostic_test", user_id, 200,
                          [assessment_id |-> assessment.id,
                           questions |-> [i \in 1..Len(sel) |->
                                             PublicQuestion(question_objects[i])],
                           total_questions |-> Len(sel)])
    /\ UNCHANGED <<users, study_plans, today, reqs, prac>>

----------------------------------------------------------------------------
(* POST /submit-answer *)

\* mutant: the option is compared with >= instead of ==
IsCorrectAtLeast(selected_option, question_data) ==
    selected_option >= question_data.correct_answer

\* is_correct = answer_data.selected_option == question_data["correct_answer"]
IsCorrect(selected_option, question_data) ==
    selected_option = question_data.correct_answer

\* mutant: an unknown question id is answered by the first stored question
FindQuestionOrFirst(qs, question_id) ==
    IF FindById(qs, question_id) = <<>> /\ qs # <<>> THEN <<qs[1]>>
    ELSE FindById(qs, question_id)

\* db.questions.find_one({"id": answer_data.question_id})
FindQuestion(qs, question_id) == FindById(qs, question_id)

\* mutant: the answer is put in front of the list
PrependAnswer(answers, answer) == <<answer>> \o answers

\* assessment.answers.append(answer)
AppendAnswer(answers, answer) == Append(answers, answer)

\* mutant: the update also adds the answered question to the question list
SetAnswersBackfilling(a, answers) ==
    [a EXCEPT !.answers = answers,
              !.questions = IF answers[Len(answers)].question_id \in Range(@)
                            THEN @
                            ELSE Append(@, answers[Len(answers)].question_id)]

\* mutant: the update also rescores the assessment
SetAnswersRescoring(a, answers) ==
    [a EXCEPT !.answers = answers,
              !.score = Percent(Cardinality({i \in 1..Len(answers) :
                                                answers[i].is_correct}),
                                Len(answers))]

\* mutant: the update drops an answer to a question the assessment does not list
SetAnswersOfListed(a, answers) ==
    [a EXCEPT !.answers = IF answers[Len(answers)].question_id \in Range(a.questions)
                          THEN answers ELSE @]

\* mutant: the update reopens the assessment
SetAnswersReopening(a, answers) ==
    [a EXCEPT !.answers = answers, !.completed_at = <<>>]

\* {"$set": {"answers": [...]}} on the assessment document
SetAnswers(a, answers) == [a EXCEPT !.answers = answers]

submit_answer(assessment_id, question_id, selected_option, time_taken) ==
    LET assessment_data == FindById(assessments, assessment_id)
        question_data == FindQuestion(questions, question_id)
    IN
    /\ IF assessment_data = <<>>
       THEN /\ resp' = Response("submit_answer",
                           <<assessment_id, question_id, selected_option>>,
                           404, "Assessment not found")
            /\ UNCHANGED assessments
       ELSE IF question_data = <<>>
       THEN /\ resp' = Response("submit_answer",
                           <<assessment_id, question_id, selected_option>>,
                           404, "Question not found")
            /\ UNCHANGED assessments
       ELSE LET is_correct == IsCorrect(selected_option, question_data[1])
                answer == [question_id |-> question_id,
                           selected_option |-> selected_option,
                           is_correct |-> is_correct,
                           time_taken |-> time_taken]
                answers == AppendAnswer(assessment_data[1].answers, answer)
                Update(a) == SetAnswers(a, answers)
            IN  /\ assessments' = UpdateOne(assessments, assessment_id, Update)
                /\ resp' = Response("submit_answer",
                              <<assessment_id, question_id, selected_option>>, 200,
                              [is_correct |-> is_correct,
                               correct_answer |-> question_data[1].correct_answer,
                               explanation |-> question_data[1].text])
    /\ UNCHANGED <<users, questions, study_plans, today, reqs, prac>>

----------------------------------------------------------------------------
(* POST /complete-assessment *)

\* mutant: the filter `if a.is_correct` is missing
CorrectCountAll(answers) == Len(answers)

\* sum(1 for a in answers if a.is_correct)
CorrectCount(answers) ==
    Cardinality({i \in 1..Len(answers) : answers[i].is_correct})

RECURSIVE SubjectCounts(_, _, _)
\* the loop over assessment.answers that fills subject_scores with
\* {"correct": c, "total": t}; an answer whose question is not stored is skipped
SubjectCounts(answers, qs, acc) ==
    IF answers = <<>> THEN acc
    ELSE LET answer == Head(answers)
             question_data == FindById(qs, answer.question_id)
         IN  IF question_data # <<>>
             THEN LET subject == question_data[1].subject
                      old == IF DictHas(acc, subject) THEN DictGet(acc, subject)
                             ELSE [correct |-> 0, total |-> 0]
                      new == [correct |-> old.correct +
                                          (IF answer.is_correct THEN 1 ELSE 0),
                              total |-> old.total + 1]
                  IN  SubjectCounts(Tail(answers), qs, DictSet(acc, subject, new))
             ELSE SubjectCounts(Tail(answers), qs, acc)

\* mutant: each subject's correct count is divided by the number of all answers
SubjectScoresOfAll(answers, qs) ==
    LET counts == SubjectCounts(answers, qs, <<>>)
    IN  [i \in 1..Len(counts) |->
            <<counts[i][1], Percent(counts[i][2].correct, Len(answers))>>]

\* the loop that converts the counts to percentages, key order kept
SubjectScores(answers, qs) ==
    LET counts == SubjectCounts(answers, qs, <<>>)
    IN  [i \in 1..Len(counts) |->
            <<counts[i][1], Percent(counts[i][2].correct, counts[i][2].total)>>]

\* total_questions, correct_answers, overall_score
OverallScore(answers) == Percent(CorrectCount(answers), Len(answers))

\* skill_levels built from subject_scores.items()
SkillLevels(subject_scores) ==
    [i \in 1..Len(subject_scores) |->
        <<subject_scores[i][1], TierOf(subject_scores[i][2])>>]

\* mutant: a learner is found for every learner id once a learner is stored
FindUserOrFirst(us, user_id) ==
    IF FindById(us, user_id) = <<>> /\ us # <<>> THEN <<us[1]>>
    ELSE FindById(us, user_id)

\* db.users.find_one({"id": assessment.user_id})
FindUser(us, user_id) == FindById(us, user_id)

\* mutant: the new tiers are merged into the stored ones
MergeSkillLevels(u, skill_levels) ==
    LET Kept(e) == ~DictHas(skill_levels, e[1])
    IN  [u EXCEPT !.skill_levels = skill_levels \o SelectSeq(u.skill_levels, Kept)]

\* {"$set": {"skill_levels": skill_levels}} on the user document
ReplaceSkillLevels(u, skill_levels) == [u EXCEPT !.skill_levels = skill_levels]

\* mutant: the update leaves completed_at as it is
ScoredAssessment(a, overall_score, subject_scores, now) ==
    [a EXCEPT !.score = overall_score, !.subject_scores = subject_scores]

\* mutant: completing a completed assessment again resets its score
RecompletedAssessment(a, overall_score, subject_scores, now) ==
    [a EXCEPT !.score = IF a.completed_at = <<>> THEN overall_score ELSE <<0, 1>>,
              !.subject_scores = subject_scores,
              !.completed_at = <<now>>]

\* {"$set": {"score": ..., "subject_scores": ..., "completed_at": ...}}
CompletedAssessment(a, overall_score, subject_scores, now) ==
    [a EXCEPT !.score = overall_score,
              !.subject_scores = subject_scores,
              !.completed_at = <<now>>]

complete_assessment(assessment_id) ==
    LET assessment_data == FindById(assessments, assessment_id) IN
    /\ IF assessment_data = <<>>
       THEN /\ resp' = Response("complete_assessment", assessment_id, 404,
                           "Assessment not found")
            /\ UNCHANGED <<assessments, users>>
       ELSE LET assessment == assessment_data[1]
                overall_score == OverallScore(assessment.answers)
                subject_scores == SubjectScores(assessment.answers, questions)
                SetScores(a) == CompletedAssessment(a, overall_score,
                                                    subject_scores, today)
                user_data == FindUser(users, assessment.user_id)
                skill_levels == SkillLevels(subject_scores)
                SetLevels(u) == ReplaceSkillLevels(u, skill_levels)
            IN  /\ assessments' = UpdateOne(assessments, assessment_id, SetScores)
                /\ IF user_data # <<>>
                   THEN /\ users' = UpdateOne(users, assessment.user_id, SetLevels)
                        /\ resp' = Response("complete_assessment", assessment_id, 200,
                              [overall_score |-> overall_score,
                               subject_scores |-> subject_scores,
                               skill_levels |-> skill_levels,
                               total_questions |-> Len(assessment.answers),
                               correct_answers |-> CorrectCount(assessment.answers)])
                   ELSE \* skill_levels was never assigned: UnboundLocalError
                        /\ UNCHANGED users
                        /\ resp' = Response("complete_assessment", assessment_id, 500,
                              "Internal Server Error")
    /\ UNCHANGED <<questions, study_plans, today, reqs, prac>>

----------------------------------------------------------------------------
(* GET /study-plan/{user_id} *)

PlanQuestions == 20  \* questions_count=20
PlanMinutes == 20    \* estimated_time=20

RECURSIVE WeakSubjects(_)
\* beginner: the subject twice; intermediate: once; otherwise not at all
WeakSubjects(skill_levels) ==
    IF skill_levels = <<>> THEN <<>>
    ELSE LET subject == Head(skill_levels)[1]
             level == Head(skill_levels)[2]
         IN  (IF level = "beginner" THEN <<subject, subject>>
              ELSE IF level = "intermediate" THEN <<subject>>
              ELSE <<>>) \o WeakSubjects(Tail(skill_levels))

\* weak_subjects, every outcome: random.choice(MOCK_STUDY_PLANS) when empty
WeakSubjectChoices(skill_levels) ==
    IF WeakSubjects(skill_levels) # <<>>
    THEN {WeakSubjects(skill_levels)}
    ELSE RandomChoice(MOCK_STUDY_PLANS)

\* list(set(weak_subjects[:3])): the distinct subjects, in no defined order
PlanSubjects(weak_subjects) ==
    Range(SubSeq(weak_subjects, 1, Min(3, Len(weak_subjects))))

NewPlan(plans, user_id, date, subjects) ==
    [id |-> NewId(plans), user_id |-> user_id, date |-> date,
     subjects |-> subjects, questions_count |-> PlanQuestions,
     estimated_time |-> PlanMinutes, status |-> "pending"]

get_daily_study_plan(user_id) ==
    LET user_data == FindById(users, user_id)
        existing_plan == FindPlan(study_plans, user_id, today)
    IN
    /\ IF user_data = <<>>
       THEN /\ resp' = Response("get_daily_study_plan", user_id, 404,
                           "User not found")
            /\ UNCHANGED study_plans
       ELSE IF existing_plan # <<>>
       THEN /\ resp' = Response("get_daily_study_plan", user_id, 200,
                           existing_plan[1])
            /\ UNCHANGED study_plans
       ELSE \E weak_subjects \in WeakSubjectChoices(user_data[1].skill_levels) :
              LET plan == NewPlan(study_plans, user_id, today,
                                  PlanSubjects(weak_subjects))
              IN  /\ study_plans' = Append(study_plans, plan)
                  /\ resp' = Response("get_daily_study_plan", user_id, 200, plan)
    /\ UNCHANGED <<users, questions, assessments, today, reqs, prac>>

\* midnight passes: datetime.now() moves to the next calendar date
Tick ==
    /\ today < MaxDay
    /\ today' = today + 1
    /\ UNCHANGED <<users, questions, assessments, study_plans, reqs, prac, resp>>

----------------------------------------------------------------------------
(* Handlers called one after the other *)

\* selected_option: two of the four option indices
OptionInputs == {0, 1}

\* question ids given to submit_answer: of each assessment the first question
\* and the one PerSubject places on (another subject), and one unknown id
QuestionInputs ==
    {assessments[a].questions[i] :
        a \in 1..Len(assessments), i \in {1, 1 + PerSubject}} \cup {0}

\* the number of answers stored on an assessment (0 for an unknown id)
AnswerCount(assessment_id) ==
    LET a == FindById(assessments, assessment_id)
    IN  IF a = <<>> THEN 0 ELSE Len(a[1].answers)

\* one learner
ScoreUserInputs == {u \in UserInputs : u.name = "Asha"}

Next ==
    \/ \E u \in ScoreUserInputs : create_user(u)
    \/ \E user_id \in IdInputs(users) : start_diagnostic_test(user_id)
    \/ \E assessment_id \in IdInputs(assessments), question_id \in QuestionInputs,
          selected_option \in OptionInputs :
          /\ AnswerCount(assessment_id) < MaxAnswers
          /\ submit_answer(assessment_id, question_id, selected_option, 30)
    \/ \E assessment_id \in IdInputs(assessments) : complete_assessment(assessment_id)

Spec == Init /\ [][Next]_vars

----------------------------------------------------------------------------
(* Scores of one question answered many times: the tier thresholds *)

\* the first question of each assessment
TierQuestionInputs == {assessments[a].questions[1] : a \in 1..Len(assessments)}

NextTier ==
    \/ \E u \in ScoreUserInputs : create_user(u)
    \/ \E user_id \in IdInputs(users) \ {0} : start_diagnostic_test(user_id)
    \/ \E assessment_id \in IdInputs(assessments) \ {0},
          question_id \in TierQuestionInputs, selected_option \in OptionInputs :
          /\ AnswerCount(assessment_id) < MaxTierAnswers
          /\ submit_answer(assessment_id, question_id, selected_option, 30)
    \/ \E assessment_id \in IdInputs(assessments) \ {0} :
          complete_assessment(assessment_id)

SpecTier == Init /\ [][NextTier]_vars

----------------------------------------------------------------------------
(* Learner creation, with assessments changing the stored records *)

NextLearner ==
    \/ \E u \in UserInputs : create_user(u)
    \/ \E user_id \in IdInputs(users) \ {0} : start_diagnostic_test(user_id)
    \/ \E assessment_id \in IdInputs(assessments) \ {0},
          question_id \in QuestionInputs \ {0}, selected_option \in OptionInputs :
          /\ AnswerCount(assessment_id) < MaxFewAnswers
          /\ submit_answer(assessment_id, question_id, selected_option, 30)
    \/ \E assessment_id \in IdInputs(assessments) \ {0} :
          complete_assessment(assessment_id)

SpecLearner == Init /\ [][NextLearner]_vars

----------------------------------------------------------------------------
(* The daily plan of one learner, with assessments changing the tiers *)

\* one learner, so that the plans of the model are all for the same learner
PlanUserInputs == {u \in UserInputs : u.name = "Asha"}

NextPlan ==
    \/ \E u \in PlanUserInputs : create_user(u)
    \/ \E user_id \in IdInputs(users) \ {0} : start_diagnostic_test(user_id)
    \/ \E assessment_id \in IdInputs(assessments) \ {0},
          question_id \in QuestionInputs \ {0}, selected_option \in OptionInputs :
          /\ AnswerCount(assessment_id) < MaxFewAnswers
          /\ submit_answer(assessment_id, question_id, selected_option, 30)
    \/ \E assessment_id \in IdInputs(assessments) \ {0} :
          complete_assessment(assessment_id)
    \/ \E user_id \in IdInputs(users) : get_daily_study_plan(user_id)
    \/ Tick

SpecPlan == Init /\ [][NextPlan]_vars

----------------------------------------------------------------------------
(* Handlers whose awaits interleave: each handler is an asyncio task that   *)
(* runs from one await to the next without interruption, and other         *)
(* requests run while it waits for the database.                           *)

Slots == 1..MaxInflight

\* the requests in flight that run handler op
Inflight(op) == {s \in Slots : reqs[s] # <<>> /\ reqs[s][1].op = op}

\* create_user up to the result of `await db.users.find_one(...)`
create_user_find(s, u) ==
    LET existing_user == FindUserByPhone(users, u.phone) IN
    /\ reqs[s] = <<>>
    /\ Len(users) + Cardinality(Inflight("create_user")) < MaxUsers
    /\ IF existing_user # <<>>
       THEN /\ resp' = Response("create_user", u, 200, existing_user[1])
            /\ UNCHANGED reqs
       ELSE /\ reqs' = [reqs EXCEPT ![s] =
                           <<[op |-> "create_user", pc |-> "insert", user_data |-> u]>>]
            /\ UNCHANGED resp
    /\ UNCHANGED <<users, questions, assessments, study_plans, today, prac>>

\* create_user from `await db.users.insert_one(user.dict())` to the return
create_user_insert(s) ==
    /\ reqs[s] # <<>>
    /\ reqs[s][1].op = "create_user"
    /\ LET user == NewUser(users, reqs[s][1].user_data)
       IN  /\ users' = Append(users, user)
           /\ resp' = Response("create_user", reqs[s][1].user_data, 200, user)
    /\ reqs' = [reqs EXCEPT ![s] = <<>>]
    /\ UNCHANGED <<questions, assessments, study_plans, today, prac>>

\* get_daily_study_plan up to the result of `await db.users.find_one(...)`
study_plan_find_user(s, user_id) ==
    LET user_data == FindById(users, user_id) IN
    /\ reqs[s] = <<>>
    /\ Len(study_plans) + Cardinality(Inflight("get_daily_study_plan")) < MaxPlans
    /\ IF user_data = <<>>
       THEN /\ resp' = Response("get_daily_study_plan", user_id, 404,
                           "User not found")
            /\ UNCHANGED reqs
       ELSE /\ reqs' = [reqs EXCEPT ![s] =
                           <<[op |-> "get_daily_study_plan", pc |-> "find_plan",
                              user_id |-> user_id, user |-> user_data[1]]>>]
            /\ UNCHANGED resp
    /\ UNCHANGED <<users, questions, assessments, study_plans, today, prac>>

\* ... from `today = ...` to the result of `await db.study_plans.find_one(...)`
\* and, when there is no plan, the construction of the new one (its uuid is
\* fresh whenever it is drawn, so it is given at the insert)
study_plan_find_plan(s) ==
    /\ reqs[s] # <<>>
    /\ reqs[s][1].op = "get_daily_study_plan"
    /\ reqs[s][1].pc = "find_plan"
    /\ LET r == reqs[s][1]
           existing_plan == FindPlan(study_plans, r.user_id, today)
       IN  IF existing_plan # <<>>
           THEN /\ resp' = Response("get_daily_study_plan", r.user_id, 200,
                               existing_plan[1])
                /\ reqs' = [reqs EXCEPT ![s] = <<>>]
           ELSE /\ \E weak_subjects \in WeakSubjectChoices(r.user.skill_levels) :
                      reqs' = [reqs EXCEPT ![s] =
                          <<[op |-> "get_daily_study_plan", pc |-> "insert",
                             user_id |-> r.user_id, date |-> today,
                             subjects |-> PlanSubjects(weak_subjects)]>>]
                /\ UNCHANGED resp
    /\ UNCHANGED <<users, questions, assessments, study_plans, today, prac>>

\* ... from `await db.study_plans.insert_one(plan.dict())` to the return
study_plan_insert(s) ==
    /\ reqs[s] # <<>>
    /\ reqs[s][1].op = "get_daily_study_plan"
    /\ reqs[s][1].pc = "insert"
    /\ LET r == reqs[s][1]
           plan == NewPlan(study_plans, r.user_id, r.date, r.subjects)
       IN  /\ study_plans' = Append(study_plans, plan)
           /\ resp' = Response("get_daily_study_plan", r.user_id, 200, plan)
    /\ reqs' = [reqs EXCEPT ![s] = <<>>]
    /\ UNCHANGED <<users, questions, assessments, today, prac>>

\* submit_answer up to the result of `await db.assessments.find_one(...)`
submit_answer_find_assessment(s, assessment_id, question_id, selected_option, time_taken) ==
    LET assessment_data == FindById(assessments, assessment_id) IN
    /\ reqs[s] = <<>>
    /\ IF assessment_data = <<>>
       THEN /\ resp' = Response("submit_answer",
                           <<assessment_id, question_id, selected_option>>,
                           404, "Assessment not found")
            /\ UNCHANGED reqs
       ELSE /\ reqs' = [reqs EXCEPT ![s] =
                           <<[op |-> "submit_answer", pc |-> "find_question",
                              assessment_id |-> assessment_id,
                              question_id |-> question_id,
                              selected_option |-> selected_option,
                              time_taken |-> time_taken,
                              read |-> assessment_data[1].answers]>>]
            /\ UNCHANGED resp
    /\ UNCHANGED <<users, questions, assessments, study_plans, today, prac>>

\* ... up to the result of `await db.questions.find_one(...)`, and from
\* there to the call of update_one: the Answer, and the list to write, built
\* from the answers that were read
submit_answer_find_question(s) ==
    /\ reqs[s] # <<>>
    /\ reqs[s][1].op = "submit_answer"
    /\ reqs[s][1].pc = "find_question"
    /\ LET r == reqs[s][1]
           question_data == FindQuestion(questions, r.question_id)
       IN  IF question_data = <<>>
           THEN /\ resp' = Response("submit_answer",
                               <<r.assessment_id, r.question_id, r.selected_option>>,
                               404, "Question not found")
                /\ reqs' = [reqs EXCEPT ![s] = <<>>]
           ELSE LET is_correct == IsCorrect(r.selected_option, question_data[1])
                    answer == [question_id |-> r.question_id,
                               selected_option |-> r.selected_option,
                               is_correct |-> is_correct,
                               time_taken |-> r.time_taken]
                IN  /\ reqs' = [reqs EXCEPT ![s] =
                               <<[op |-> "submit_answer", pc |-> "update",
                                  assessment_id |-> r.assessment_id,
                                  question_id |-> r.question_id,
                                  selected_option |-> r.selected_option,
                                  read |-> r.read, answer |-> answer,
                                  answers |-> AppendAnswer(r.read, answer),
                                  correct_answer |-> question_data[1].correct_answer,
                                  explanation |-> question_data[1].text]>>]
                    /\ UNCHANGED resp
    /\ UNCHANGED <<users, questions, assessments, study_plans, today, prac>>

\* mutant: the update pushes the new answer onto the stored list
PushAnswer(a, r) == [a EXCEPT !.answers = Append(a.answers, r.answer)]

\* the update_one of request r on the stored assessment a
WriteAnswers(a, r) == SetAnswers(a, r.answers)

\* ... from `await db.assessments.update_one(...)` to the return; the slot
\* keeps the request with the response it was given
submit_answer_update(s) ==
    /\ reqs[s] # <<>>
    /\ reqs[s][1].op = "submit_answer"
    /\ reqs[s][1].pc = "update"
    /\ LET r == reqs[s][1]
           Update(a) == WriteAnswers(a, r)
       IN  /\ assessments' = UpdateOne(assessments, r.assessment_id, Update)
           /\ resp' = Response("submit_answer",
                          <<r.assessment_id, r.question_id, r.selected_option>>, 200,
                          [is_correct |-> r.answer.is_correct,
                           correct_answer |-> r.correct_answer,
                           explanation |-> r.explanation])
           /\ reqs' = [reqs EXCEPT ![s] =
                          <<[op |-> "submit_answer", pc |-> "done",
                             assessment_id |-> r.assessment_id,
                             read |-> r.read, answer |-> r.answer,
                             status |-> 200]>>]
    /\ UNCHANGED <<users, questions, study_plans, today, prac>>

\* complete_assessment up to the call of update_one on the assessment: the
\* assessment is read and the scores are computed from its answers (the
\* questions read for them are never changed once stored)
complete_assessment_find(s, assessment_id) ==
    LET assessment_data == FindById(assessments, assessment_id) IN
    /\ reqs[s] = <<>>
    /\ IF assessment_data = <<>>
       THEN /\ resp' = Response("complete_assessment", assessment_id, 404,
                           "Assessment not found")
            /\ UNCHANGED reqs
       ELSE LET assessment == assessment_data[1]
            IN  /\ reqs' = [reqs EXCEPT ![s] =
                      <<[op |-> "complete_assessment", pc |-> "update",
                         assessment_id |-> assessment_id,
                         user_id |-> assessment.user_id,
                         overall_score |-> OverallScore(assessment.answers),
                         subject_scores |->
                             SubjectScores(assessment.answers, questions),
                         total_questions |-> Len(assessment.answers),
                         correct_answers |-> CorrectCount(assessment.answers)]>>]
                /\ UNCHANGED resp
    /\ UNCHANGED <<users, questions, assessments, study_plans, today, prac>>

\* ... the update_one that writes score, subject_scores and completed_at
complete_assessment_update(s) ==
    /\ reqs[s] # <<>>
    /\ reqs[s][1].op = "complete_assessment"
    /\ reqs[s][1].pc = "update"
    /\ LET r == reqs[s][1]
           SetScores(a) == CompletedAssessment(a, r.overall_score,
                                               r.subject_scores, today)
       IN  assessments' = UpdateOne(assessments, r.assessment_id, SetScores)
    /\ reqs' = [reqs EXCEPT ![s] = <<[reqs[s][1] EXCEPT !.pc = "find_user"]>>]
    /\ UNCHANGED <<users, questions, study_plans, today, prac, resp>>

\* ... the find_one of the user; without a user document the return
\* statement reads skill_levels, which was never assigned
complete_assessment_find_user(s) ==
    /\ reqs[s] # <<>>
    /\ reqs[s][1].op = "complete_assessment"
    /\ reqs[s][1].pc = "find_user"
    /\ LET r == reqs[s][1]
           user_data == FindUser(users, r.user_id)
       IN  IF user_data = <<>>
           THEN /\ resp' = Response("complete_assessment", r.assessment_id, 500,
                               "Internal Server Error")
                /\ reqs' = [reqs EXCEPT ![s] = <<>>]
           ELSE /\ reqs' = [reqs EXCEPT ![s] =
                               <<[r EXCEPT !.pc = "update_user"]>>]
                /\ UNCHANGED resp
    /\ UNCHANGED <<users, questions, assessments, study_plans, today, prac>>

\* ... the update_one that writes skill_levels, and the return
complete_assessment_update_user(s) ==
    /\ reqs[s] # <<>>
    /\ reqs[s][1].op = "complete_assessment"
    /\ reqs[s][1].pc = "update_user"
    /\ LET r == reqs[s][1]
           skill_levels == SkillLevels(r.subject_scores)
           SetLevels(u) == ReplaceSkillLevels(u, skill_levels)
       IN  /\ users' = UpdateOne(users, r.user_id, SetLevels)
           /\ resp' = Response("complete_assessment", r.assessment_id, 200,
                          [overall_score |-> r.overall_score,
                           subject_scores |-> r.subject_scores,
                           skill_levels |-> skill_levels,
                           total_questions |-> r.total_questions,
                           correct_answers |-> r.correct_answers])
    /\ reqs' = [reqs EXCEPT ![s] = <<>>]
    /\ UNCHANGED <<questions, assessments, study_plans, today, prac>>

NextConc ==
    \/ \E s \in Slots, u \in UserInputs : create_user_find(s, u)
    \/ \E s \in Slots : create_user_insert(s)
    \/ \E s \in Slots, user_id \in IdInputs(users) : study_plan_find_user(s, user_id)
    \/ \E s \in Slots : study_plan_find_plan(s)
    \/ \E s \in Slots : study_plan_insert(s)
    \/ Tick

SpecConc == Init /\ [][NextConc]_vars

\* answers submitted at the same time to the assessments of a diagnostic test
NextSubmit ==
    \/ \E user_id \in IdInputs(users) : start_diagnostic_test(user_id)
    \/ \E s \in Slots, assessment_id \in IdInputs(assessments),
          question_id \in QuestionInputs, selected_option \in OptionInputs :
          submit_answer_find_assessment(s, assessment_id, question_id,
                                        selected_option, 30)
    \/ \E s \in Slots : submit_answer_find_question(s)
    \/ \E s \in Slots : submit_answer_update(s)

SpecSubmit == Init /\ [][NextSubmit]_vars

\* completions whose database calls interleave, for a stored learner and
\* for a learner id without a user document
NextComplete ==
    \/ \E u \in ScoreUserInputs : create_user(u)
    \/ \E user_id \in IdInputs(users) : start_diagnostic_test(user_id)
    \/ \E assessment_id \in IdInputs(assessments) \ {0},
          question_id \in QuestionInputs \ {0}, selected_option \in OptionInputs :
          /\ AnswerCount(assessment_id) < MaxFewAnswers
          /\ submit_answer(assessment_id, question_id, selected_option, 30)
    \/ \E s \in Slots, assessment_id \in IdInputs(assessments) :
          complete_assessment_find(s, assessment_id)
    \/ \E s \in Slots : complete_assessment_update(s)
    \/ \E s \in Slots : complete_assessment_find_user(s)
    \/ \E s \in Slots : complete_assessment_update_user(s)

SpecComplete == Init /\ [][NextComplete]_vars

----------------------------------------------------------------------------
(* GET /adaptive-practice: one call, an iteration of its loop per step *)

\* mutant: the pool is weighted as the daily plan weights its subjects
WeightedPoolAsPlan(skill_levels) == WeakSubjects(skill_levels)

RECURSIVE WeightedPool(_)
\* weakest_subjects: beginner three times, intermediate twice, otherwise once
WeightedPool(skill_levels) ==
    IF skill_levels = <<>> THEN <<>>
    ELSE LET subject == Head(skill_levels)[1]
             level == Head(skill_levels)[2]
         IN  (IF level = "beginner" THEN <<subject, subject, subject>>
              ELSE IF level = "intermediate" THEN <<subject, subject>>
              ELSE <<subject>>) \o WeightedPool(Tail(skill_levels))

\* the pool random.choice draws selected_subject from
SubjectPool(skill_levels) ==
    IF WeightedPool(skill_levels) # <<>> THEN WeightedPool(skill_levels)
    ELSE CoreSubjects

\* user.skill_levels.get(selected_subject, "beginner")
DifficultyFor(skill_levels, subject) ==
    IF DictHas(skill_levels, subject) THEN DictGet(skill_levels, subject)
    ELSE "beginner"

\* what json.loads can return for a response of the content generator: a
\* well-formed payload, a payload whose option lists and index pydantic
\* accepts although they are not 4 options / an index into them, and a
\* payload that lacks a key (complete = FALSE)
PayloadInputs == {
    [complete |-> TRUE, text |-> "G1", options_en |-> 4, options_hi |-> 4,
     correct_answer |-> 2],
    [complete |-> TRUE, text |-> "G2", options_en |-> 3, options_hi |-> 4,
     correct_answer |-> 5],
    [complete |-> FALSE, text |-> "G3", options_en |-> 4, options_hi |-> 4,
     correct_answer |-> 0] }

\* mutant: the sample question is returned with its correct index moved on
SampleFallbacksShifted(subject, difficulty) ==
    LET Matches(q) == q.subject = subject /\ q.difficulty = difficulty
        matching_questions == SelectSeq(SAMPLE_QUESTIONS, Matches)
        Complete(q) == [complete |-> TRUE, text |-> q.text,
                        options_en |-> q.options_en, options_hi |-> q.options_hi,
                        correct_answer |-> (q.correct_answer + 1) % 4]
    IN  {Complete(q) : q \in (IF matching_questions # <<>>
                              THEN RandomChoice(matching_questions)
                              ELSE {SAMPLE_QUESTIONS[1]})}

\* the except branch of generate_adaptive_question, taken when the call of
\* the content generator failed (get_openai_response then returns its apology)
\* or its response is not JSON: a sample question of the subject and
\* difficulty, or SAMPLE_QUESTIONS[0] when there is none
SampleFallbacks(subject, difficulty) ==
    LET Matches(q) == q.subject = subject /\ q.difficulty = difficulty
        matching_questions == SelectSeq(SAMPLE_QUESTIONS, Matches)
        Complete(q) == [complete |-> TRUE, text |-> q.text,
                        options_en |-> q.options_en, options_hi |-> q.options_hi,
                        correct_answer |-> q.correct_answer]
    IN  {Complete(q) : q \in (IF matching_questions # <<>>
                              THEN RandomChoice(matching_questions)
                              ELSE {SAMPLE_QUESTIONS[1]})}

\* generate_adaptive_question. generator_ok: the content generator answered
\* with the JSON of a question. Otherwise the call failed or its response
\* cannot be used: it is not JSON (the sample fallback), or it is JSON that
\* lacks a key of the question (returned as it is)
GeneratedQuestions(subject, difficulty, generator_ok) ==
    IF generator_ok THEN {q \in PayloadInputs : q.complete}
    ELSE {q \in PayloadInputs : ~q.complete} \cup
         SampleFallbacks(subject, difficulty)

\* the fallback of the except branch: <<mock question, used_questions after>>
MockFallbacks(used_questions) ==
    LET Unused(q) == q.text \notin used_questions
        unused == SelectSeq(MOCK_ADAPTIVE_QUESTIONS, Unused)
        available_questions == IF unused # <<>> THEN unused
                               ELSE MOCK_ADAPTIVE_QUESTIONS
        used == IF unused # <<>> THEN used_questions ELSE {}
    IN  {<<q, used \cup {q.text}>> : q \in RandomChoice(available_questions)}

get_adaptive_practice_start(user_id, count) ==
    LET user_data == FindById(users, user_id) IN
    /\ prac = <<>>
    /\ IF user_data = <<>>
       THEN \* the HTTPException(404) is raised inside the try and caught by
            \* `except Exception`, which raises HTTPException(500)
            /\ resp' = Response("get_adaptive_practice", <<user_id, count>>, 500,
                           "Internal server error: 404: User not found")
            /\ UNCHANGED <<assessments, prac>>
       ELSE LET assessment == NewAssessment(NewId(assessments), user_id,
                                            user_data[1].target_exam, <<>>)
            IN  /\ assessments' = Append(assessments, assessment)
                /\ prac' = <<[user |-> user_data[1], assessment_id |-> assessment.id,
                              left |-> IF count > 0 THEN count ELSE 0,
                              count |-> count, questions |-> <<>>,
                              used_questions |-> {},
                              \* locals of the loop body, unbound before it
                              weakest_subjects |-> <<>>,
                              selected_subject |-> "", difficulty |-> ""]>>
                /\ UNCHANGED resp
    /\ UNCHANGED <<users, questions, study_plans, today, reqs>>

\* one iteration of `for _ in range(count)`; generator_ok says whether the
\* content generator answers with a question, insert_ok and fallback_ok
\* whether the insert_one of the try and of the except branch succeed
get_adaptive_practice_iter(generator_ok, insert_ok, fallback_ok) ==
    /\ prac # <<>>
    /\ prac[1].left > 0
    /\ LET p == prac[1]
           levels == p.user.skill_levels
       IN  \E selected_subject \in RandomChoice(SubjectPool(levels)) :
           \E question_data \in GeneratedQuestions(selected_subject,
                                   DifficultyFor(levels, selected_subject),
                                   generator_ok) :
           \E fb \in MockFallbacks(p.used_questions) :
             LET difficulty == DifficultyFor(levels, selected_subject)
                 generated == [id |-> NewId(questions), subject |-> selected_subject,
                               difficulty |-> difficulty, text |-> question_data.text,
                               options_en |-> question_data.options_en,
                               options_hi |-> question_data.options_hi,
                               correct_answer |-> question_data.correct_answer,
                               exam_type |-> p.user.target_exam]
                 stored == question_data.complete /\ insert_ok
                 \* questions.append precedes the insert_one that may fail
                 appended == IF question_data.complete
                             THEN Append(p.questions, generated) ELSE p.questions
                 after_try == IF stored THEN Append(questions, generated)
                              ELSE questions
                 mock == StoredQuestion(NewId(after_try), fb[1])
                 drawn == [p EXCEPT !.weakest_subjects = SubjectPool(levels),
                                    !.selected_subject = selected_subject,
                                    !.difficulty = difficulty]
             IN  IF stored
                 THEN /\ questions' = after_try
                      /\ prac' = <<[drawn EXCEPT !.questions = appended,
                                                 !.left = p.left - 1]>>
                      /\ UNCHANGED resp
                 ELSE IF fallback_ok
                 THEN /\ questions' = Append(after_try, mock)
                      /\ prac' = <<[drawn EXCEPT !.questions = Append(appended, mock),
                                                 !.used_questions = fb[2],
                                                 !.left = p.left - 1]>>
                      /\ UNCHANGED resp
                 ELSE \* the insert_one of the except branch raises: the outer
                      \* `except Exception` ends the call with status 500
                      /\ UNCHANGED questions
                      /\ prac' = <<>>
                      /\ resp' = Response("get_adaptive_practice",
                                    <<p.user.id, p.count>>, 500,
                                    "Internal server error")
    /\ UNCHANGED <<users, assessments, study_plans, today, reqs>>

get_adaptive_practice_return ==
    /\ prac # <<>>
    /\ prac[1].left = 0
    /\ resp' = Response("get_adaptive_practice", <<prac[1].user.id, prac[1].count>>,
                  200, [questions |-> prac[1].questions,
                        assessment_id |-> prac[1].assessment_id])
    /\ prac' = <<>>
    /\ UNCHANGED <<users, questions, assessments, study_plans, today, reqs>>

\* count: 0 .. MaxCount
CountInputs == 0..MaxCount

NextPractice ==
    \/ \E u \in UserInputs : prac = <<>> /\ create_user(u)
    \/ \E user_id \in IdInputs(users), count \in CountInputs :
          /\ Len(assessments) < MaxAssessments
          /\ get_adaptive_practice_start(user_id, count)
    \/ \E generator_ok \in BOOLEAN, insert_ok \in BOOLEAN, fallback_ok \in BOOLEAN :
          get_adaptive_practice_iter(generator_ok, insert_ok, fallback_ok)
    \/ get_adaptive_practice_return

SpecPractice == Init /\ [][NextPractice]_vars

----------------------------------------------------------------------------
(* Practice when every call of the content generator fails and the database *)
(* works, for a learner with or without tiers                               *)

\* the first question of each assessment that has questions
FirstQuestionInputs ==
    {assessments[a].questions[1] :
        a \in {b \in 1..Len(assessments) : assessments[b].questions # <<>>}}

\* one learner, whose target exam is not the exam of the first mock questions
FallbackUserInputs == {u \in UserInputs : u.name = "Bina"}

NextFallback ==
    \/ \E u \in FallbackUserInputs : prac = <<>> /\ create_user(u)
    \/ \E user_id \in IdInputs(users) \ {0} :
          prac = <<>> /\ start_diagnostic_test(user_id)
    \/ \E assessment_id \in IdInputs(assessments) \ {0},
          question_id \in FirstQuestionInputs, selected_option \in OptionInputs :
          /\ prac = <<>>
          /\ AnswerCount(assessment_id) < MaxFewAnswers
          /\ submit_answer(assessment_id, question_id, selected_option, 30)
    \/ \E assessment_id \in IdInputs(assessments) \ {0} :
          prac = <<>> /\ complete_assessment(assessment_id)
    \/ \E user_id \in IdInputs(users), count \in CountInputs :
          /\ Len(assessments) < MaxRecords
          /\ get_adaptive_practice_start(user_id, count)
    \/ get_adaptive_practice_iter(FALSE, TRUE, TRUE)
    \/ get_adaptive_practice_return

SpecFallback == Init /\ [][NextFallback]_vars

----------------------------------------------------------------------------
(* Claims *)

\* the assessment and the question a response is about
RespAssessment(id) == FindById(assessments, id)[1]
RespQuestion(id) == FindById(questions, id)[1]

\* C1: every StartDiagnostic returns (and its assessment references) at most
\* 10 questions, exactly 10 when the catalog holds at least 10, and no catalog
\* question twice.
C1_DiagnosticHasTenQuestions ==
    resp.op = "start_diagnostic_test" =>
        LET a == RespAssessment(resp.body.assessment_id)
            qs == resp.body.questions
        IN  /\ Len(qs) <= 10
            /\ resp.body.total_questions <= 10
            /\ Len(a.questions) <= 10
            /\ Len(SAMPLE_QUESTIONS) >= 10 => Len(qs) = 10
            /\ \A i, j \in 1..Len(qs) : qs[i].text = qs[j].text => i = j

\* C2: after every successful SubmitAnswer, the returned isCorrect and the
\* is_correct of the appended Answer both equal (selectedOption = the stored
\* question's correct_answer), and the returned index is that correct_answer.
C2_SubmitAnswerCorrectness ==
    (resp.op = "submit_answer" /\ resp.status = 200) =>
        LET a == RespAssessment(resp.req[1])
            q == RespQuestion(resp.req[2])
            last == a.answers[Len(a.answers)]
            expected == (resp.req[3] = q.correct_answer)
        IN  /\ resp.body.is_correct = expected
            /\ resp.body.correct_answer = q.correct_answer
            /\ last.question_id = resp.req[2]
            /\ last.selected_option = resp.req[3]
            /\ last.is_correct = expected

\* a correct answer accepted on an assessment that was completed before and
\* already holds a wrong answer
C2_Witness ==
    /\ resp.op = "submit_answer"
    /\ resp.status = 200
    /\ resp.body.is_correct
    /\ LET a == RespAssessment(resp.req[1])
       IN  /\ a.completed_at # <<>>
           /\ Len(a.answers) >= 2
           /\ ~a.answers[1].is_correct

\* C3: CompleteAssessment stores and returns overallScore = 100 * correct /
\* total over the assessment's answers, 0 when there are none; every stored
\* score lies in 0..100.
C3_OverallScore ==
    /\ \A i \in 1..Len(assessments) :
          LET sc == assessments[i].score
          IN  sc[2] > 0 /\ 0 <= sc[1] /\ sc[1] <= 100 * sc[2]
    /\ (resp.op = "complete_assessment" /\ resp.status \in {200, 500}) =>
          LET a == RespAssessment(resp.req)
              total == Len(a.answers)
              correct == Cardinality({i \in 1..total : a.answers[i].is_correct})
          IN  /\ IF total = 0 THEN a.score = <<0, 1>>
                 ELSE a.score[1] * total = 100 * correct * a.score[2]
              /\ resp.status = 200 =>
                    /\ resp.body.overall_score = a.score
                    /\ resp.body.total_questions = total
                    /\ resp.body.correct_answers = correct

\* a completion over three answers of which one is correct: 100/3 per cent
C3_Witness ==
    /\ resp.op = "complete_assessment"
    /\ resp.status = 200
    /\ Len(RespAssessment(resp.req).answers) = 3
    /\ resp.body.overall_score = <<100, 3>>

\* C4: the subjectScores of CompleteAssessment have as keys exactly the
\* subjects of the answered questions, each value is 100 * correct / total
\* over the Answer entries of that subject (an entry per submission), in 0..100.
C4_SubjectScores ==
    (resp.op = "complete_assessment" /\ resp.status \in {200, 500}) =>
        LET a == RespAssessment(resp.req)
            ss == a.subject_scores
            n == Len(a.answers)
            SubjectOf(i) == RespQuestion(a.answers[i].question_id).subject
            Subjects == {SubjectOf(i) : i \in 1..n}
        IN  /\ {ss[k][1] : k \in 1..Len(ss)} = Subjects
            /\ Len(ss) = Cardinality(Subjects)
            /\ \A k \in 1..Len(ss) :
                  LET sc == ss[k][2]
                      total == Cardinality({i \in 1..n : SubjectOf(i) = ss[k][1]})
                      correct == Cardinality({i \in 1..n :
                                     SubjectOf(i) = ss[k][1] /\ a.answers[i].is_correct})
                  IN  /\ sc[2] > 0
                      /\ sc[1] * total = 100 * correct * sc[2]
                      /\ 0 <= sc[1] /\ sc[1] <= 100 * sc[2]
            /\ resp.status = 200 => resp.body.subject_scores = ss

\* two subjects with different scores, one of them from a question that was
\* answered twice
C4_Witness ==
    /\ resp.op = "complete_assessment"
    /\ resp.status = 200
    /\ LET a == RespAssessment(resp.req)
       IN  /\ Len(a.answers) = 3
           /\ a.answers[1].question_id = a.answers[2].question_id
           /\ a.answers[1].is_correct # a.answers[2].is_correct
           /\ Len(a.subject_scores) = 2
           /\ a.subject_scores[1][2] = <<50, 1>>
           /\ a.subject_scores[2][2] = <<100, 1>>

\* C5: for every subject of the subjectScores of a CompleteAssessment (learner
\* present) the tier returned and written is advanced from 80, intermediate
\* from 50 to below 80, beginner below 50; every stored tier is one of the three.
C5_TierMapping ==
    /\ \A i \in 1..Len(users) : \A k \in 1..Len(users[i].skill_levels) :
          users[i].skill_levels[k][2] \in {"beginner", "intermediate", "advanced"}
    /\ (resp.op = "complete_assessment" /\ resp.status = 200) =>
          LET a == RespAssessment(resp.req)
              u == FindById(users, a.user_id)[1]
              ss == resp.body.subject_scores
              sl == resp.body.skill_levels
          IN  /\ Len(sl) = Len(ss)
              /\ u.skill_levels = sl
              /\ \A k \in 1..Len(ss) :
                    LET sc == ss[k][2]
                    IN  /\ sl[k][1] = ss[k][1]
                        /\ sl[k][2] =
                             IF sc[1] >= 80 * sc[2] THEN "advanced"
                             ELSE IF sc[1] >= 50 * sc[2] THEN "intermediate"
                             ELSE "beginner"

\* a subject scored exactly 80 (four of five answers correct)
C5_Witness ==
    /\ resp.op = "complete_assessment"
    /\ resp.status = 200
    /\ \E k \in 1..Len(resp.body.subject_scores) :
          /\ resp.body.subject_scores[k][2] = <<80, 1>>
          /\ resp.body.skill_levels[k][2] = "advanced"

\* C6: a CreateOrGetLearner call for a contact id that already has a record
\* returns that record, with the id the call before it returned for the same
\* contact id, and leaves db.users as it was, whatever its other arguments.
C6_CreateOrGetIdempotent ==
    [][\A u \in UserInputs :
          LET Same(x) == x.phone = u.phone
              stored == SelectSeq(users, Same)
          IN  /\ (stored # <<>> /\ create_user(u)) =>
                    (users' = users /\ resp'.body = stored[1])
              /\ (resp.op = "create_user" /\ resp.req.phone = u.phone
                    /\ create_user(u)) =>
                    (users' = users /\ resp'.body.id = resp.body.id)]_vars

\* a second call with another name, target exam and language returned the
\* record of the first, which an assessment has given tiers in the meantime
C6_Witness ==
    /\ resp.op = "create_user"
    /\ resp.body.name # resp.req.name
    /\ resp.body.target_exam # resp.req.target_exam
    /\ resp.body.preferred_language # resp.req.preferred_language
    /\ resp.body.skill_levels # <<>>
    /\ Len(users) = 1

\* C7: no two learner records have the same contact identifier, also when the
\* lookup and insert steps of concurrent CreateOrGetLearner calls interleave.
C7_UniqueContact ==
    \A i, j \in 1..Len(users) : users[i].phone = users[j].phone => i = j

\* C8: a GetDailyPlan call for a learner who has a plan for today returns that
\* plan (same id, same subjects) and writes nothing, whatever the learner's
\* tiers are by then; a stored plan is never changed, and every plan returned
\* is a stored plan of that learner for today.
C8_DailyPlanIdempotent ==
    [][/\ \A i \in 1..Len(study_plans) :
             Len(study_plans') >= i /\ study_plans'[i] = study_plans[i]
       /\ \A user_id \in IdInputs(users) :
             LET Mine(x) == x.user_id = user_id /\ x.date = today
                 stored == SelectSeq(study_plans, Mine)
             IN  /\ (stored # <<>> /\ get_daily_study_plan(user_id)) =>
                       /\ resp'.body = stored[1]
                       /\ UNCHANGED <<users, questions, assessments, study_plans>>
                 /\ (get_daily_study_plan(user_id) /\ resp'.status = 200) =>
                       /\ resp'.body \in Range(study_plans')
                       /\ resp'.body.user_id = user_id
                       /\ resp'.body.date = today]_vars

\* the plan returned is not one the learner's present tiers would produce:
\* it was stored before a CompleteAssessment changed them
C8_Witness ==
    /\ resp.op = "get_daily_study_plan"
    /\ resp.status = 200
    /\ LET u == FindById(users, resp.req)[1]
       IN  /\ u.skill_levels # <<>>
           /\ resp.body.subjects \notin
                  {PlanSubjects(w) : w \in WeakSubjectChoices(u.skill_levels)}

\* C9: there is at most one study plan per (learner, calendar date), also
\* when the lookup and insert steps of concurrent GetDailyPlan calls interleave.
C9_OnePlanPerDay ==
    \A i, j \in 1..Len(study_plans) :
        (study_plans[i].user_id = study_plans[j].user_id
            /\ study_plans[i].date = study_plans[j].date) => i = j

\* C10: GetAdaptivePractice for a learner id without a record fails with
\* NotFound (404) and creates no assessment and no question.
C10_PracticeUnknownLearner ==
    [][\A user_id \in IdInputs(users), count \in CountInputs :
          (FindById(users, user_id) = <<>>
              /\ get_adaptive_practice_start(user_id, count)) =>
             /\ resp'.status = 404
             /\ assessments' = assessments
             /\ questions' = questions]_vars

\* the learner a response of get_adaptive_practice is for
RespLearner == FindById(users, resp.req[1])

\* the entries of the two static catalogs
StaticCatalog == Range(SAMPLE_QUESTIONS) \cup Range(MOCK_ADAPTIVE_QUESTIONS)

\* C11: when every call of the content generator fails, get_adaptive_practice
\* for a stored learner and a count >= 0 ends without an error and returns
\* exactly count questions, each with the text, the options and the correct
\* index of an entry of SAMPLE_QUESTIONS or MOCK_ADAPTIVE_QUESTIONS
C11_FallbackBatch ==
    (resp.op = "get_adaptive_practice" /\ RespLearner # <<>>) =>
        /\ resp.status = 200
        /\ Len(resp.body.questions) = resp.req[2]
        /\ \A i \in 1..Len(resp.body.questions) :
              LET q == resp.body.questions[i]
              IN  \E c \in StaticCatalog :
                    /\ q.text = c.text
                    /\ q.options_en = c.options_en
                    /\ q.options_hi = c.options_hi
                    /\ q.correct_answer = c.correct_answer

\* a learner with tiers received two questions, one of each static catalog
C11_Witness ==
    /\ resp.op = "get_adaptive_practice"
    /\ resp.status = 200
    /\ RespLearner # <<>>
    /\ RespLearner[1].skill_levels # <<>>
    /\ resp.req[2] >= 2
    /\ \E i, j \in 1..Len(resp.body.questions) :
          /\ \E c \in Range(SAMPLE_QUESTIONS) : resp.body.questions[i].text = c.text
          /\ \E c \in Range(MOCK_ADAPTIVE_QUESTIONS) :
                resp.body.questions[j].text = c.text

\* C12: for a learner without tiers get_adaptive_practice(count) returns
\* exactly count questions, and the exam_type of each is the learner's
\* target_exam, whichever path produced the question
C12_PracticeExamTag ==
    (/\ resp.op = "get_adaptive_practice"
     /\ resp.status = 200
     /\ RespLearner # <<>>
     /\ RespLearner[1].skill_levels = <<>>) =>
        /\ Len(resp.body.questions) = resp.req[2]
        /\ \A i \in 1..Len(resp.body.questions) :
              resp.body.questions[i].exam_type = RespLearner[1].target_exam

\* C13: the assessment document that get_adaptive_practice inserts has the
\* kind adaptive_practice, in a field of its own or as its test_type, and an
\* empty list of questions
C13_PracticeKind ==
    prac # <<>> =>
        LET a == RespAssessment(prac[1].assessment_id)
        IN  /\ \/ /\ "assessment_type" \in DOMAIN a
                  /\ a.assessment_type = "adaptive_practice"
               \/ a.test_type = "adaptive_practice"
            /\ a.questions = <<>>

\* C14: after a complete_assessment that succeeds, the learner's stored
\* skill_levels are exactly the tiers of that assessment's subject_scores:
\* no other subject keeps a tier, and no answers give an empty mapping
C14_TiersReplaced ==
    (resp.op = "complete_assessment" /\ resp.status = 200) =>
        LET a == RespAssessment(resp.req)
            u == FindById(users, a.user_id)[1]
        IN  /\ Len(u.skill_levels) = Len(a.subject_scores)
            /\ DictKeys(u.skill_levels) = DictKeys(a.subject_scores)
            /\ \A k \in DictKeys(a.subject_scores) :
                  DictGet(u.skill_levels, k) = TierOf(DictGet(a.subject_scores, k))
            /\ a.answers = <<>> => u.skill_levels = <<>>

\* the learner lost the tier of a subject scored in an earlier assessment
C14_Witness ==
    /\ resp.op = "complete_assessment"
    /\ resp.status = 200
    /\ \E i \in 1..Len(assessments) :
          LET a == RespAssessment(resp.req)
              b == assessments[i]
              u == FindById(users, a.user_id)[1]
          IN  /\ b.id # a.id
              /\ b.user_id = a.user_id
              /\ b.completed_at # <<>>
              /\ DictKeys(b.subject_scores) \ DictKeys(u.skill_levels) # {}

\* C15: once an assessment is completed its stored score and subject_scores
\* have the same values in every later state
C15_ScoresFrozen ==
    [][\A i \in 1..Len(assessments) :
          assessments[i].completed_at # <<>> =>
              /\ assessments'[i].score = assessments[i].score
              /\ assessments'[i].subject_scores = assessments[i].subject_scores]_vars

\* C16: a completed_at that is set stays set, submit_answer leaves every
\* completed_at as it is, and an assessment whose completed_at is null (no
\* complete_assessment has run on it) has score 0
C16_CompletionPermanent ==
    [][/\ \A i \in 1..Len(assessments) :
            /\ assessments[i].completed_at # <<>> =>
                  assessments'[i].completed_at # <<>>
            /\ resp'.op = "submit_answer" =>
                  assessments'[i].completed_at = assessments[i].completed_at
       /\ \A i \in 1..Len(assessments') :
            assessments'[i].completed_at = <<>> =>
                assessments'[i].score = <<0, 1>>]_vars

\* an answer was accepted on a completed assessment, which is still completed
C16_Witness ==
    /\ resp.op = "submit_answer"
    /\ resp.status = 200
    /\ RespAssessment(resp.req[1]).completed_at # <<>>
    /\ RespAssessment(resp.req[1]).score # <<0, 1>>

\* C17: a submit_answer whose assessment id or question id is not stored ends
\* with 404 and leaves the answers of every assessment as they are
C17_SubmitNotFound ==
    [][(/\ resp'.op = "submit_answer"
        /\ \/ FindById(assessments, resp'.req[1]) = <<>>
           \/ FindById(questions, resp'.req[2]) = <<>>) =>
           /\ resp'.status = 404
           /\ Len(assessments') = Len(assessments)
           /\ \A i \in 1..Len(assessments) :
                 assessments'[i].answers = assessments[i].answers]_vars

\* an unknown question id was refused on an assessment that has answers
C17_Witness ==
    /\ resp.op = "submit_answer"
    /\ resp.status = 404
    /\ FindById(assessments, resp.req[1]) # <<>>
    /\ FindById(questions, resp.req[2]) = <<>>
    /\ RespAssessment(resp.req[1]).answers # <<>>

\* C18: handlers running one at a time, a submit_answer with stored ids
\* succeeds, also for a question answered before, and adds exactly one
\* Answer, for the submitted question and option, at the end of the
\* assessment's answers; the earlier entries and the other assessments stay
C18_AnswersAppendOnly ==
    [][(/\ resp'.op = "submit_answer"
        /\ FindById(assessments, resp'.req[1]) # <<>>
        /\ FindById(questions, resp'.req[2]) # <<>>) =>
           /\ resp'.status = 200
           /\ Len(assessments') = Len(assessments)
           /\ \A i \in 1..Len(assessments) :
                 LET old == assessments[i].answers
                     new == assessments'[i].answers
                 IN  IF assessments[i].id = resp'.req[1]
                     THEN /\ Len(new) = Len(old) + 1
                          /\ SubSeq(new, 1, Len(old)) = old
                          /\ new[Len(new)].question_id = resp'.req[2]
                          /\ new[Len(new)].selected_option = resp'.req[3]
                     ELSE assessments'[i] = assessments[i]]_vars

\* a question was answered a second time, with another option, and both
\* answers are stored in the order they were submitted
C18_Witness ==
    /\ resp.op = "submit_answer"
    /\ resp.status = 200
    /\ LET answers == RespAssessment(resp.req[1]).answers
       IN  /\ Len(answers) >= 2
           /\ answers[Len(answers)].question_id = resp.req[2]
           /\ answers[Len(answers)].selected_option = resp.req[3]
           /\ answers[Len(answers) - 1].question_id = resp.req[2]
           /\ answers[Len(answers) - 1].selected_option # resp.req[3]

\* C20: complete_assessment on a stored assessment whose user_id has no user
\* document ends with an error and returns no scores
C20_CompleteWithoutLearner ==
    (/\ resp.op = "complete_assessment"
     /\ FindById(assessments, resp.req) # <<>>
     /\ FindById(users, RespAssessment(resp.req).user_id) = <<>>) =>
        /\ resp.status = 500
        /\ resp.body = "Internal Server Error"

\* the assessment of an unknown learner, started by start_diagnostic_test and
\* answered, was completed with a learner stored
C20_Witness ==
    /\ resp.op = "complete_assessment"
    /\ resp.status = 500
    /\ users # <<>>
    /\ FindById(users, RespAssessment(resp.req).user_id) = <<>>
    /\ RespAssessment(resp.req).answers # <<>>

\* the requests of submit_answer that have written and were answered
Answered == {s \in Slots : reqs[s] # <<>> /\ reqs[s][1].op = "submit_answer"
                              /\ reqs[s][1].pc = "done"}

\* C19: submit_answer writes the whole list it built from the answers it
\* read, without a lock: its write succeeds and leaves exactly the answers it
\* read followed by its own answer, so when another call that read the same
\* answers wrote in between, the stored list has one of the two new answers
C19_LostUpdate ==
    [][\A s \in Slots :
          (/\ reqs[s] # <<>>
           /\ reqs[s][1].op = "submit_answer"
           /\ reqs[s][1].pc = "update"
           /\ reqs'[s][1].pc = "done") =>
              LET r == reqs[s][1]
                  stored == FindById(assessments', r.assessment_id)[1].answers
              IN  /\ reqs'[s][1].status = 200
                  /\ resp'.status = 200
                  /\ stored = Append(r.read, r.answer)
                  /\ \A t \in Answered :
                        (/\ reqs[t][1].assessment_id = r.assessment_id
                         /\ reqs[t][1].read = r.read) =>
                            Len(stored) = Len(r.read) + 1]_vars

\* two calls read the same answers, both were answered with success, and the
\* stored list holds the answer of one of them only
C19_Witness ==
    \E s, t \in Answered :
        LET stored == RespAssessment(reqs[s][1].assessment_id).answers
        IN  /\ s # t
            /\ reqs[s][1].assessment_id = reqs[t][1].assessment_id
            /\ reqs[s][1].read = reqs[t][1].read
            /\ reqs[s][1].status = 200
            /\ reqs[t][1].status = 200
            /\ reqs[s][1].answer # reqs[t][1].answer
            /\ stored = Append(reqs[t][1].read, reqs[t][1].answer)
            /\ \A i \in 1..Len(stored) : stored[i] # reqs[s][1].answer

\* C21: every stored question has 4 options in each language and a
\* correct_answer that is an index into them
C21_QuestionWellFormed ==
    \A i \in 1..Len(questions) :
        /\ questions[i].options_en = 4
        /\ questions[i].options_hi = 4
        /\ questions[i].correct_answer \in 0..3

\* C22: a complete_assessment that follows a successful complete_assessment
\* of the same assessment, with no submit_answer in between and the learner
\* stored, returns the same overall_score, subject_scores, skill_levels,
\* total_questions and correct_answers, and leaves the stored score,
\* subject_scores and skill_levels as they were; completed_at may change
C22_RecompleteSameResult ==
    [][(/\ resp.op = "complete_assessment"
        /\ resp.status = 200
        /\ resp'.op = "complete_assessment"
        /\ resp'.req = resp.req) =>
           /\ resp'.status = 200
           /\ resp'.body = resp.body
           /\ FindById(assessments', resp.req)[1].score = RespAssessment(resp.req).score
           /\ FindById(assessments', resp.req)[1].subject_scores =
                 RespAssessment(resp.req).subject_scores
           /\ users' = users]_vars

\* an assessment with a score above 0 that was completed before the plan of
\* date 1 was made from its tiers has been completed again on date 2
C22_Witness ==
    /\ resp.op = "complete_assessment"
    /\ resp.status = 200
    /\ today = 2
    /\ RespAssessment(resp.req).completed_at = <<2>>
    /\ RespAssessment(resp.req).score # <<0, 1>>
    /\ \E i \in 1..Len(study_plans) :
          /\ study_plans[i].date = 1
          /\ study_plans[i].user_id = RespAssessment(resp.req).user_id
          /\ Cardinality(study_plans[i].subjects) = 1

\* the texts of the static catalogs
StaticTexts == {c.text : c \in StaticCatalog}

\* C23: in the questions one get_adaptive_practice returns, a question of a
\* static catalog never has the text of the catalog question chosen just
\* before it
C23_NoImmediateRepeat ==
    (resp.op = "get_adaptive_practice" /\ resp.status = 200) =>
        \A i, j \in 1..Len(resp.body.questions) :
            (/\ i < j
             /\ resp.body.questions[i].text \in StaticTexts
             /\ resp.body.questions[j].text \in StaticTexts
             /\ \A k \in (i + 1)..(j - 1) :
                   resp.body.questions[k].text \notin StaticTexts) =>
                resp.body.questions[i].text # resp.body.questions[j].text

\* the number of times x occurs in the sequence s
Occurrences(s, x) == Cardinality({i \in 1..Len(s) : s[i] = x})

\* C24 as stated, its last sentence: the questions a learner with tiers
\* receives are all of subjects in the learner's skill_levels
C24_AskedWithinTiers ==
    (/\ resp.op = "get_adaptive_practice"
     /\ resp.status = 200
     /\ RespLearner # <<>>
     /\ RespLearner[1].skill_levels # <<>>) =>
        \A i \in 1..Len(resp.body.questions) :
            resp.body.questions[i].subject \in DictKeys(RespLearner[1].skill_levels)

\* C24, amended: in every iteration of get_adaptive_practice the pool holds
\* each subject of the learner's skill_levels 3 times for beginner, twice for
\* intermediate and once otherwise, and nothing else, or the 4 core subjects
\* once each when skill_levels is empty; the subject is drawn from the pool and
\* the difficulty is its tier, or beginner without one. The subject drawn
\* for a learner with tiers is thus in skill_levels; a question of the mock
\* fallback keeps its own subject
C24_WeightedDraw ==
    (prac # <<>> /\ prac[1].selected_subject # "") =>
        LET p == prac[1]
            levels == p.user.skill_levels
            pool == p.weakest_subjects
        IN  /\ levels # <<>> =>
                  /\ Range(pool) = DictKeys(levels)
                  /\ \A k \in DictKeys(levels) :
                        Occurrences(pool, k) =
                            IF DictGet(levels, k) = "beginner" THEN 3
                            ELSE IF DictGet(levels, k) = "intermediate" THEN 2
                            ELSE 1
                  /\ p.difficulty = DictGet(levels, p.selected_subject)
            /\ levels = <<>> =>
                  /\ pool = CoreSubjects
                  /\ p.difficulty = "beginner"
            /\ p.selected_subject \in Range(pool)
            /\ \A i \in 1..Len(p.questions) :
                  p.questions[i].text \notin {c.text : c \in Range(MOCK_ADAPTIVE_QUESTIONS)}
                      => p.questions[i].subject \in Range(pool)

\* a subject was drawn for a learner whose only tier is advanced
C24_Witness ==
    /\ prac # <<>>
    /\ prac[1].selected_subject # ""
    /\ Len(prac[1].user.skill_levels) = 1
    /\ prac[1].user.skill_levels[1][2] = "advanced"
    /\ prac[1].questions # <<>>

\* C25: the plan get_daily_study_plan creates for a learner with tiers has
\* as subjects the distinct subjects among the first three entries of the
\* weak-subject list: at most 3, each with a tier, none with the tier advanced
C25_PlanSubjectsFromTiers ==
    [][(Len(study_plans') = Len(study_plans) + 1) =>
          LET plan == study_plans'[Len(study_plans')]
              levels == FindById(users, plan.user_id)[1].skill_levels
              weak == WeakSubjects(levels)
          IN  levels # <<>> =>
                /\ plan.subjects = {weak[i] : i \in 1..Min(3, Len(weak))}
                /\ Cardinality(plan.subjects) <= 3
                /\ \A s \in plan.subjects :
                      /\ DictHas(levels, s)
                      /\ DictGet(levels, s) # "advanced"]_vars

\* C26: get_adaptive_practice for a stored learner contains every failure of
\* the generator and of the database in its iteration: it ends without an
\* error, returns exactly count questions, and each of them is stored
C26_FailuresContained ==
    (resp.op = "get_adaptive_practice" /\ RespLearner # <<>>) =>
        /\ resp.status = 200
        /\ Len(resp.body.questions) = resp.req[2]
        /\ \A i \in 1..Len(resp.body.questions) :
              resp.body.questions[i] \in Range(questions)

\* the completions that have written the assessment and not yet the learner
Completing == {s \in Slots : /\ reqs[s] # <<>>
                               /\ reqs[s][1].op = "complete_assessment"
                               /\ reqs[s][1].pc \in {"find_user", "update_user"}}

\* C27: complete_assessment writes score, subject_scores and completed_at on
\* the assessment before it looks up or updates the learner, in a write of
\* its own: while it is at the learner the assessment is stored as completed,
\* and when it ended in error for want of the learner the assessment is
\* stored as completed all the same
C27_CompletionNotAtomic ==
    /\ \A s \in Completing :
          RespAssessment(reqs[s][1].assessment_id).completed_at # <<>>
    /\ (resp.op = "complete_assessment" /\ resp.status = 500) =>
          RespAssessment(resp.req).completed_at # <<>>

\* between the two writes: the assessment is stored as completed with the
\* scores of this request, and the learner's tiers are not those scores' tiers
C27_Witness ==
    \E s \in Completing :
        LET r == reqs[s][1]
            a == RespAssessment(r.assessment_id)
        IN  /\ r.pc = "update_user"
            /\ a.completed_at # <<>>
            /\ a.subject_scores = r.subject_scores
            /\ a.subject_scores # <<>>
            /\ FindById(users, r.user_id) # <<>>
            /\ FindById(users, r.user_id)[1].skill_levels #
                  SkillLevels(a.subject_scores)

\* the ids in the question list of some assessment
ListedQuestions ==
    UNION {Range(assessments[i].questions) : i \in 1..Len(assessments)}

\* C28: no step changes the question list of a stored assessment, and the
\* assessment of a get_adaptive_practice that returned questions has an
\* empty question list
C28_QuestionListFixed ==
    [][/\ \A i \in 1..Len(assessments) :
            assessments'[i].questions = assessments[i].questions
       /\ (resp'.op = "get_adaptive_practice" /\ resp'.status = 200) =>
            FindById(assessments', resp'.body.assessment_id)[1].questions = <<>>]_vars

\* an assessment made by get_adaptive_practice, which stored questions that
\* no assessment lists, was answered and completed and lists no question
C28_Witness ==
    /\ \E i \in 1..Len(questions) : questions[i].id \notin ListedQuestions
    /\ \E i \in 1..Len(assessments) :
          /\ assessments[i].questions = <<>>
          /\ assessments[i].answers # <<>>
          /\ assessments[i].completed_at # <<>>

\* C29: submit_answer on a completed assessment, with a stored question,
\* succeeds and appends the Answer, and leaves score, subject_scores and
\* completed_at as they are; the stored score can then differ from
\* 100 * correct / total of the stored answers
C29_SubmitAfterCompletion ==
    [][\A i \in 1..Len(assessments) :
          (/\ resp'.op = "submit_answer"
           /\ resp'.req[1] = assessments[i].id
           /\ FindById(questions, resp'.req[2]) # <<>>
           /\ assessments[i].completed_at # <<>>) =>
              /\ resp'.status = 200
              /\ Len(assessments'[i].answers) = Len(assessments[i].answers) + 1
              /\ assessments'[i].score = assessments[i].score
              /\ assessments'[i].subject_scores = assessments[i].subject_scores
              /\ assessments'[i].completed_at = assessments[i].completed_at]_vars

\* an answer was taken on a completed assessment, whose stored score is no
\* longer the score of its stored answers
C29_Witness ==
    /\ resp.op = "submit_answer"
    /\ resp.status = 200
    /\ RespAssessment(resp.req[1]).completed_at # <<>>
    /\ RespAssessment(resp.req[1]).score #
          OverallScore(RespAssessment(resp.req[1]).answers)

\* the subject of the stored question an answer is for
AnswerSubject(answer) == RespQuestion(answer.question_id).subject

\* C30: submit_answer for a stored assessment and a stored question is
\* accepted and appended whether or not the assessment lists the question,
\* and complete_assessment counts every such answer in total_questions and
\* correct_answers and in the score of the question's subject
C30_ForeignQuestionCounted ==
    /\ (/\ resp.op = "submit_answer"
        /\ FindById(assessments, resp.req[1]) # <<>>
        /\ FindById(questions, resp.req[2]) # <<>>) =>
           LET answers == RespAssessment(resp.req[1]).answers
           IN  /\ resp.status = 200
               /\ answers # <<>>
               /\ answers[Len(answers)].question_id = resp.req[2]
               /\ answers[Len(answers)].selected_option = resp.req[3]
               /\ answers[Len(answers)].is_correct =
                     (resp.req[3] = RespQuestion(resp.req[2]).correct_answer)
    /\ (resp.op = "complete_assessment" /\ resp.status = 200) =>
           LET a == RespAssessment(resp.req)
               Of(subject) == {i \in 1..Len(a.answers) :
                                  AnswerSubject(a.answers[i]) = subject}
               Right(I) == {i \in I : a.answers[i].is_correct}
           IN  /\ resp.body.total_questions = Len(a.answers)
               /\ resp.body.correct_answers =
                     Cardinality(Right(1..Len(a.answers)))
               /\ resp.body.overall_score =
                     Percent(Cardinality(Right(1..Len(a.answers))), Len(a.answers))
               /\ \A i \in 1..Len(a.answers) :
                     a.answers[i].question_id \notin Range(a.questions) =>
                        LET subject == AnswerSubject(a.answers[i])
                        IN  /\ DictHas(resp.body.subject_scores, subject)
                            /\ DictGet(resp.body.subject_scores, subject) =
                                  Percent(Cardinality(Right(Of(subject))),
                                          Cardinality(Of(subject)))

\* an assessment that lists no question was completed with a correct answer
\* to a question of another assessment, which its score counts
C30_Witness ==
    /\ resp.op = "complete_assessment"
    /\ resp.status = 200
    /\ RespAssessment(resp.req).questions = <<>>
    /\ resp.body.correct_answers >= 1
    /\ resp.body.subject_scores # <<>>
    /\ \E i \in 1..Len(RespAssessment(resp.req).answers) :
          RespAssessment(resp.req).answers[i].question_id \in ListedQuestions

============================================================================
